---- MODULE Spec2Model ----
(***************************************************************************)
(* Model of libcaf's Tree (src/libcaf/src/tree.h): a class with one public *)
(* const member, `records`, of type std::map<std::string, TreeRecord>, a   *)
(* constructor that copy-initialises it from a caller's map, and one const *)
(* method, record(key), that returns records.find(key).                    *)
(*                                                                         *)
(* A std::map is modelled as the sequence of its bindings in iteration     *)
(* order; a std::string as a sequence of character codes compared as       *)
(* std::less<std::string> compares them; an iterator as a position of that *)
(* sequence, end() being the position one past the last binding.  Objects  *)
(* live at locations of a small heap so that "the Tree's own storage" and  *)
(* "the caller's map" are different things that could, in a faulty         *)
(* variant, be the same thing.                                             *)
(***************************************************************************)
EXTENDS Naturals, Sequences, FiniteSets

\* ------------------------------------------------------------- bounds ----
\* Number of distinct key strings the callers use.
NumKeys == 3
\* Number of concurrent reader threads.
NumReaders == 2
\* Calls counted after the caller has kept an iterator (the count saturates).
MaxLater == 2
\* Trees constructed one after another from one map.
MaxTrees == 2

\* --------------------------------------------------------- std::string ----
RECURSIVE KeyOf(_)
\* The n-th string over the two-letter alphabet in length-then-alphabet
\* order: "", "a", "b", "aa", "ab", ...  (letters are the codes 1 and 2).
KeyOf(n) ==
    IF n = 0 THEN << >>
    ELSE Append(KeyOf((n - 1) \div 2), ((n - 1) % 2) + 1)

Keys == { KeyOf(n) : n \in 0..(NumKeys - 1) }

\* TreeRecord is opaque to tree.h, which never inspects or compares one:
\* two values are enough to tell one binding's record from another's.
Records == {"R1", "R2"}

\* A value-initialised TreeRecord.
DefaultRecord == "R0"

RECURSIVE StrLess(_, _)
\* std::less<std::string>: lexicographic comparison, a proper prefix first.
StrLess(s, t) ==
    IF t = << >> THEN FALSE
    ELSE IF s = << >> THEN TRUE
    ELSE IF Head(s) < Head(t) THEN TRUE
    ELSE IF Head(t) < Head(s) THEN FALSE
    ELSE StrLess(Tail(s), Tail(t))

\* ------------------------------------------------------------ std::map ----
Binding(k, r) == [key |-> k, rec |-> r]

\* records.end(): the position one past the last binding.
End(recs) == Len(recs) + 1

\* The first position whose key is not less than k, or end().
LowerBound(recs, k) ==
    LET hits == { i \in 1..Len(recs) : ~StrLess(recs[i].key, k) }
    IN  IF hits = {} THEN End(recs)
        ELSE CHOOSE i \in hits : \A j \in hits : i <= j

\* Whether the binding at position j has a key equivalent to k.
KeyMatches(recs, j, k) ==
    /\ j <= Len(recs)
    /\ ~StrLess(k, recs[j].key)

\* std::map::find: the position of the binding whose key is equivalent to
\* k, or end().
Find(recs, k) ==
    LET j == LowerBound(recs, k)
    IN  IF KeyMatches(recs, j, k) THEN j ELSE End(recs)

InsertAt(recs, j, b) ==
    [i \in 1..(Len(recs) + 1) |->
        IF i < j THEN recs[i] ELSE IF i = j THEN b ELSE recs[i - 1]]

RemoveAt(recs, j) ==
    [i \in 1..(Len(recs) - 1) |-> IF i < j THEN recs[i] ELSE recs[i + 1]]

\* Faulty carrier: a container that keeps insertion order (no ordering by
\* key), as a hash or list container would.
MapInsertUnordered(recs, k, r) ==
    IF \E i \in 1..Len(recs) : recs[i].key = k THEN recs
    ELSE Append(recs, Binding(k, r))

\* Faulty carrier: a multimap, which accepts a key that is already bound.
MapInsertMulti(recs, k, r) ==
    InsertAt(recs, LowerBound(recs, k), Binding(k, r))

\* std::map::insert: adds the binding at its place in key order unless the
\* key is already bound, in which case the map is left as it is.
MapInsert(recs, k, r) ==
    LET j == LowerBound(recs, k)
    IN  IF KeyMatches(recs, j, k) THEN recs
        ELSE InsertAt(recs, j, Binding(k, r))

\* std::map::erase(key).
MapErase(recs, k) ==
    LET j == Find(recs, k)
    IN  IF j = End(recs) THEN recs ELSE RemoveAt(recs, j)

\* std::map::insert_or_assign / operator[] followed by assignment.
MapAssign(recs, k, r) ==
    LET j == Find(recs, k)
    IN  IF j = End(recs) THEN MapInsert(recs, k, r)
        ELSE [recs EXCEPT ![j] = Binding(k, r)]

\* ----------------------------------------------------------------- heap ----
Locs == {"caller", "tree"}

LiveMap(recs) == [live |-> TRUE, recs |-> recs]

\* What is left at a location once the object there is destroyed.
Destroyed == [live |-> FALSE, recs |-> << >>]

Readers == 1..NumReaders

VARIABLES
    heap,        \* the std::map object at each location
    treeState,   \* "none" | "alive" | "destroyed": the Tree's lifetime
    recordsLoc,  \* the location of the object that Tree::records names
    built,       \* history: the bindings of the constructor's argument
    initial,     \* history: Tree::records right after construction
    argAfter,    \* history: the argument right after construction
    it,          \* the result of a record() call that the caller has kept
    pc,          \* per reader thread: where it is in its record() call
    rkey,        \* per reader thread: the key it passed
    rpos,        \* per reader thread: the position its search reached
    rres,        \* per reader thread: the result returned to it
    wrote,       \* history: readers whose call changed the heap
    inserted,    \* history: the keys in the order the caller bound them
    cursor,      \* the position of an iteration over Tree::records (0: none)
    visited,     \* the keys that iteration has yielded so far
    ntrees,      \* history: how many Trees were constructed from the map
    prevRecords  \* history: Tree::records of the Tree before this one

vars == << heap, treeState, recordsLoc, built, initial, argAfter, it,
           pc, rkey, rpos, rres, wrote,
           inserted, cursor, visited, ntrees, prevRecords >>

hist == << built, initial, argAfter >>
seqVars == << it >>
conVars == << pc, rkey, rpos, rres, wrote >>
bldVars == << inserted, cursor, visited, ntrees, prevRecords >>

\* ----------------------------------------------------------------- Tree ----
\* Faulty variant: `records` declared as a reference member, so that it
\* names the caller's map instead of a map of the Tree's own.
RecordsMemberAlias(argLoc, ownLoc) == argLoc

\* `const std::map<...> records;` is a member object, not a reference: it
\* lives inside the Tree whatever the constructor was given.
RecordsMember(argLoc, ownLoc) == ownLoc

\* The bindings Tree::records holds, in iteration order.
TreeRecords == heap[recordsLoc].recs

\* Faulty variant: a copy that loses the last binding.
MapCopyDropLast(src) == SubSeq(src, 1, Len(src) - 1)

\* std::map's copy constructor, as the member initialiser records(records)
\* runs it: one binding per binding of the source, in the same order.
MapCopy(src) ==
    [i \in 1..Len(src) |-> Binding(src[i].key, src[i].rec)]

\* Faulty variant: a constructor that takes its argument by rvalue and
\* moves from it, which leaves the argument empty.
ArgAfterMove(src) == << >>

\* The constructor takes `const std::map<...>&`: the argument is read,
\* never written.
ArgAfterConstruct(src) == src

\* Faulty variant: records.lower_bound(key), which does not check that the
\* binding found has the key asked for.
RecordLowerBound(recs, key) ==
    [kind |-> "iterator", pos |-> LowerBound(recs, key)]

\* Faulty variant: records.at(key), which throws for an absent key.
RecordAt(recs, key) ==
    IF Find(recs, key) = End(recs)
    THEN [kind |-> "exception", pos |-> 0]
    ELSE [kind |-> "iterator", pos |-> Find(recs, key)]

\* Tree::record: returns records.find(key), a const_iterator, as a value.
Record(recs, key) ==
    [kind |-> "iterator", pos |-> Find(recs, key)]

\* Faulty variant: records[key], which binds an absent key to a
\* default-constructed record.
RecordsAfterSubscript(recs, key) == MapInsert(recs, key, DefaultRecord)

\* record() is a const method on a const member: the bindings after the
\* call are the bindings before it.
RecordsAfterRecord(recs, key) == recs

\* ------------------------------------------------ what a caller holds ----
NoBinding == [key |-> << >>, rec |-> "none"]

NoResult ==
    [held |-> FALSE, key |-> << >>, kind |-> "none", pos |-> 0,
     bind |-> NoBinding, later |-> 0]

\* The result of record(k) on recs as its caller sees it: the outcome, the
\* iterator, and (history) the binding the iterator denoted on return and
\* the number of record() calls made since.
Result(k, out, recs) ==
    [held |-> TRUE, key |-> k, kind |-> out.kind, pos |-> out.pos,
     bind |-> IF out.pos \in 1..Len(recs) THEN recs[out.pos] ELSE NoBinding,
     later |-> 0]

\* ----------------------------------------------------------------- Init ----
Init ==
    /\ heap = [l \in Locs |-> IF l = "caller" THEN LiveMap(<< >>) ELSE Destroyed]
    /\ treeState = "none"
    /\ recordsLoc = "tree"
    /\ built = << >>
    /\ initial = << >>
    /\ argAfter = << >>
    /\ it = NoResult
    /\ pc = [r \in Readers |-> "idle"]
    /\ rkey = [r \in Readers |-> << >>]
    /\ rpos = [r \in Readers |-> 0]
    /\ rres = [r \in Readers |-> NoResult]
    /\ wrote = {}
    /\ inserted = << >>
    /\ cursor = 0
    /\ visited = << >>
    /\ ntrees = 0
    /\ prevRecords = << >>

\* ---------------------------------------------------- the caller's map ----
\* The caller's own std::map, the one it passes to the constructor.
InsertIntoArg(k, r) ==
    /\ heap["caller"].live
    /\ heap' = [heap EXCEPT !["caller"].recs = MapInsert(@, k, r)]
    /\ UNCHANGED << treeState, recordsLoc, hist, seqVars, conVars >>

CallerInsert(k, r) ==
    /\ InsertIntoArg(k, r)
    /\ UNCHANGED bldVars

CallerErase(k) ==
    /\ heap["caller"].live
    /\ heap' = [heap EXCEPT !["caller"].recs = MapErase(@, k)]
    /\ UNCHANGED << treeState, recordsLoc, hist, seqVars, conVars, bldVars >>

CallerAssign(k, r) ==
    /\ heap["caller"].live
    /\ heap' = [heap EXCEPT !["caller"].recs = MapAssign(@, k, r)]
    /\ UNCHANGED << treeState, recordsLoc, hist, seqVars, conVars, bldVars >>

CallerDestroy ==
    /\ heap["caller"].live
    /\ treeState # "none"
    /\ heap' = [heap EXCEPT !["caller"] = Destroyed]
    /\ UNCHANGED << treeState, recordsLoc, hist, seqVars, conVars, bldVars >>

\* ------------------------------------------------------- Tree::Tree ----
\* explicit Tree(const std::map<...>& records): records(records) {}
Construct ==
    /\ treeState # "alive"
    /\ heap["caller"].live
    /\ LET src == heap["caller"].recs
           own == [heap EXCEPT !["tree"] = LiveMap(MapCopy(src))]
           loc == RecordsMember("caller", "tree")
       IN  /\ heap' = [own EXCEPT !["caller"].recs = ArgAfterConstruct(src)]
           /\ recordsLoc' = loc
           /\ built' = src
           /\ initial' = heap'[loc].recs
           /\ argAfter' = heap'["caller"].recs
    /\ treeState' = "alive"
    /\ it' = NoResult
    /\ UNCHANGED conVars

TreeConstruct ==
    /\ Construct
    /\ UNCHANGED bldVars

\* ------------------------------------------------------ Tree::~Tree ----
\* The implicit destructor destroys the member; what the caller kept of
\* the Tree (an iterator) is left in the caller's hands.
Destruct ==
    /\ treeState = "alive"
    /\ \A r \in Readers : pc[r] = "idle"
    /\ heap' = [heap EXCEPT !["tree"] = Destroyed]
    /\ treeState' = "destroyed"
    /\ built' = << >>
    /\ initial' = << >>
    /\ argAfter' = << >>
    /\ UNCHANGED << recordsLoc, seqVars, conVars >>

TreeDestroy ==
    /\ Destruct
    /\ UNCHANGED bldVars

\* ----------------------------------------------------- Tree::record ----
Saturate(n) == IF n < MaxLater THEN n + 1 ELSE n

\* One whole call by the thread that owns the Tree.  With keep the caller
\* holds on to the iterator it got; without, it goes on holding the one it
\* held, which has now seen one more call.
RecordCall(k, keep) ==
    /\ treeState = "alive"
    /\ LET recs == TreeRecords
           out  == Record(recs, k)
       IN  /\ heap' = [heap EXCEPT ![recordsLoc].recs = RecordsAfterRecord(@, k)]
           /\ it' = IF keep THEN Result(k, out, recs)
                    ELSE IF it.held THEN [it EXCEPT !.later = Saturate(@)]
                    ELSE it
    /\ UNCHANGED << treeState, recordsLoc, hist, conVars, bldVars >>

\* The caller lets go of the iterator it held.
Release ==
    /\ it.held
    /\ it' = NoResult
    /\ UNCHANGED << heap, treeState, recordsLoc, hist, conVars, bldVars >>

\* ------------------------------------------- concurrent record calls ----
\* A reader thread's call, in the steps records.find(key) takes: enter with
\* the key, search for the lower bound, compare the key found, return.
ReaderCall(r, k) ==
    /\ treeState = "alive"
    /\ pc[r] = "idle"
    /\ pc' = [pc EXCEPT ![r] = "search"]
    /\ rkey' = [rkey EXCEPT ![r] = k]
    /\ UNCHANGED << heap, treeState, recordsLoc, hist, seqVars, bldVars,
                    rpos, rres, wrote >>

ReaderSearch(r) ==
    /\ pc[r] = "search"
    /\ rpos' = [rpos EXCEPT ![r] = LowerBound(TreeRecords, rkey[r])]
    /\ pc' = [pc EXCEPT ![r] = "compare"]
    /\ UNCHANGED << heap, treeState, recordsLoc, hist, seqVars, bldVars,
                    rkey, rres, wrote >>

ReaderCompare(r) ==
    /\ pc[r] = "compare"
    /\ LET recs == TreeRecords
           pos  == IF KeyMatches(recs, rpos[r], rkey[r]) THEN rpos[r] ELSE End(recs)
           out  == [kind |-> Record(recs, rkey[r]).kind, pos |-> pos]
       IN  /\ rres' = [rres EXCEPT ![r] = Result(rkey[r], out, recs)]
           /\ heap' = [heap EXCEPT ![recordsLoc].recs = RecordsAfterRecord(@, rkey[r])]
           /\ wrote' = IF heap' = heap THEN wrote ELSE wrote \cup {r}
    /\ pc' = [pc EXCEPT ![r] = "returned"]
    /\ rpos' = [rpos EXCEPT ![r] = 0]
    /\ UNCHANGED << treeState, recordsLoc, hist, seqVars, bldVars, rkey >>

\* The reader is done with the iterator it was returned.
ReaderDone(r) ==
    /\ pc[r] = "returned"
    /\ pc' = [pc EXCEPT ![r] = "idle"]
    /\ rres' = [rres EXCEPT ![r] = NoResult]
    /\ rkey' = [rkey EXCEPT ![r] = << >>]
    /\ UNCHANGED << heap, treeState, recordsLoc, hist, seqVars, bldVars,
                    rpos, wrote >>

\* -------------------------------------------- assembling and iterating ----
HasKey(recs, k) == \E i \in 1..Len(recs) : recs[i].key = k

\* The caller binds one more key, in whatever order it pleases.
Assemble(k, r) ==
    /\ treeState = "none"
    /\ InsertIntoArg(k, r)
    /\ inserted' = IF HasKey(heap["caller"].recs, k) THEN inserted
                   ELSE Append(inserted, k)
    /\ UNCHANGED << cursor, visited, ntrees, prevRecords >>

\* A Tree is constructed from the assembled map: the first, or one more
\* after the one before it was destroyed.
Build ==
    /\ ntrees < MaxTrees
    /\ Construct
    /\ ntrees' = ntrees + 1
    /\ cursor' = 0
    /\ visited' = << >>
    /\ UNCHANGED << inserted, prevRecords >>

Drop ==
    /\ Destruct
    /\ prevRecords' = TreeRecords
    /\ cursor' = 0
    /\ visited' = << >>
    /\ UNCHANGED << inserted, ntrees >>

\* for (it = records.begin(); it != records.end(); ++it): begin() ...
IterBegin ==
    /\ treeState = "alive"
    /\ cursor = 0
    /\ cursor' = 1
    /\ visited' = << >>
    /\ UNCHANGED << heap, treeState, recordsLoc, hist, seqVars, conVars,
                    inserted, ntrees, prevRecords >>

\* ... and one turn of the loop: read the key under the iterator, ++it.
IterNext ==
    /\ treeState = "alive"
    /\ cursor \in 1..Len(TreeRecords)
    /\ visited' = Append(visited, TreeRecords[cursor].key)
    /\ cursor' = cursor + 1
    /\ UNCHANGED << heap, treeState, recordsLoc, hist, seqVars, conVars,
                    inserted, ntrees, prevRecords >>

\* ------------------------------------------------------ specifications ----
\* One thread: it assembles a map, constructs a Tree from it, looks keys
\* up, goes on changing its own map, and destroys either.
Next ==
    \/ \E k \in Keys, r \in Records : CallerInsert(k, r)
    \/ \E k \in Keys : CallerErase(k)
    \/ \E k \in Keys, r \in Records : CallerAssign(k, r)
    \/ CallerDestroy
    \/ TreeConstruct
    \/ TreeDestroy
    \/ \E k \in Keys, keep \in BOOLEAN : RecordCall(k, keep)
    \/ Release

Spec == Init /\ [][Next]_vars

\* Several threads: a map is assembled, the Tree constructed and published,
\* and from then on the readers call record() in any interleaving.
AssembleInsert(k, r) == treeState = "none" /\ CallerInsert(k, r)

Publish == treeState = "none" /\ TreeConstruct

NextConc ==
    \/ \E k \in Keys, r \in Records : AssembleInsert(k, r)
    \/ Publish
    \/ \E r \in Readers, k \in Keys : ReaderCall(r, k)
    \/ \E r \in Readers : ReaderSearch(r)
    \/ \E r \in Readers : ReaderCompare(r)
    \/ \E r \in Readers : ReaderDone(r)

SpecConc == Init /\ [][NextConc]_vars

\* One thread: it binds keys in any order, constructs a Tree, iterates over
\* its records, destroys it and constructs another from the same map.
NextBuild ==
    \/ \E k \in Keys, r \in Records : Assemble(k, r)
    \/ Build
    \/ Drop
    \/ IterBegin
    \/ IterNext

SpecBuild == Init /\ [][NextBuild]_vars

\* ------------------------------------------------------------- claims ----
BindingSet(recs) == { recs[i] : i \in 1..Len(recs) }

KeySet(ks) == { ks[i] : i \in 1..Len(ks) }

Increasing(ks) ==
    \A i, j \in 1..Len(ks) : i < j => StrLess(ks[i], ks[j])

KeysOf(recs) == [i \in 1..Len(recs) |-> recs[i].key]

\* C1: a kept result of record(k) denotes, when k was a key of the map the
\* Tree was built from, the binding of k with the record that map gave k,
\* and is records.end() when k was not a key of it (every k for an empty
\* map).
C1_LookupCorrect ==
    (treeState = "alive" /\ it.held) =>
        /\ it.kind = "iterator"
        /\ IF HasKey(built, it.key)
           THEN /\ it.pos \in 1..Len(TreeRecords)
                /\ TreeRecords[it.pos].key = it.key
                /\ TreeRecords[it.pos] \in BindingSet(built)
                /\ it.bind = TreeRecords[it.pos]
           ELSE it.pos = End(TreeRecords)

\* A key found behind another binding, in a Tree of several.
C1_Witness ==
    /\ treeState = "alive"
    /\ it.held
    /\ it.pos >= 2
    /\ it.pos <= Len(TreeRecords)

\* C2: as long as the Tree lives, its bindings are the ones it had right
\* after construction, whatever record() calls were made, and the result
\* of record(k) is the one the freshly constructed Tree gives for k.
C2_Immutable ==
    treeState = "alive" =>
        /\ BindingSet(TreeRecords) = BindingSet(initial)
        /\ TreeRecords = initial
        /\ it.held =>
              [kind |-> it.kind, pos |-> it.pos] = Record(initial, it.key)

\* A look-up of an absent key was kept and another call made since.
C2_Witness ==
    /\ treeState = "alive"
    /\ it.held
    /\ it.later >= 1
    /\ Len(TreeRecords) >= 1
    /\ it.pos = End(TreeRecords)

\* C3: the bindings of a Tree, and the keys an iteration over them yields,
\* are in strictly increasing lexicographic order, and a complete iteration
\* yields exactly the keys the caller bound, whatever order it bound them
\* in.
C3_KeyOrder ==
    /\ treeState = "alive" => Increasing(KeysOf(TreeRecords))
    /\ Increasing(visited)
    /\ (treeState = "alive" /\ cursor = End(TreeRecords)) =>
          /\ KeySet(visited) = KeySet(inserted)
          /\ Len(visited) = Len(inserted)

\* Three keys bound out of order and iterated to the end.
C3_Witness ==
    /\ treeState = "alive"
    /\ cursor = End(TreeRecords)
    /\ Len(visited) >= 3
    /\ Len(inserted) >= 3
    /\ StrLess(inserted[3], inserted[2])
    /\ StrLess(inserted[1], inserted[3])

\* C4: no two bindings of a Tree have the same key.
C4_UniqueKeys ==
    treeState = "alive" =>
        \A i, j \in 1..Len(TreeRecords) :
            TreeRecords[i].key = TreeRecords[j].key => i = j

\* A Tree of several bindings that has served a look-up.
C4_Witness ==
    /\ treeState = "alive"
    /\ Len(TreeRecords) >= 2
    /\ it.held

\* C5: record(key) returns an iterator as an ordinary value: a position of
\* a binding the Tree was built with, or records.end(), which is no such
\* position; for an absent key it is end(), and no binding of that key
\* exists after the call.
C5_TwoOutcomes ==
    (treeState = "alive" /\ it.held) =>
        /\ it.kind = "iterator"
        /\ it.pos \in 1..End(TreeRecords)
        /\ it.pos # End(TreeRecords) => it.bind \in BindingSet(built)
        /\ ~HasKey(built, it.key) =>
              /\ it.pos = End(TreeRecords)
              /\ it.bind = NoBinding
              /\ ~HasKey(TreeRecords, it.key)

\* A look-up of an absent key in a Tree that is not empty.
C5_Witness ==
    /\ treeState = "alive"
    /\ it.held
    /\ ~HasKey(built, it.key)
    /\ Len(built) >= 1

\* C6: the Tree that construction yields holds exactly the bindings of the
\* map it was given: none dropped, none added, none altered.
C6_ConstructCopies ==
    treeState = "alive" =>
        /\ BindingSet(initial) = BindingSet(built)
        /\ Len(initial) = Len(built)

\* A Tree freshly constructed from a map of several bindings.
C6_Witness ==
    /\ treeState = "alive"
    /\ ~it.held
    /\ Len(built) >= 2

\* C7: with any number of readers inside record() at once, no reader's call
\* changes the heap, the Tree's bindings stay the ones it was constructed
\* with, and each reader is returned what record() returns for its key on
\* the Tree as constructed.
C7_ConcurrentReaders ==
    /\ wrote = {}
    /\ treeState = "alive" => TreeRecords = initial
    /\ \A r \in Readers :
          pc[r] = "returned" =>
              /\ rres[r].key = rkey[r]
              /\ [kind |-> rres[r].kind, pos |-> rres[r].pos]
                     = Record(initial, rkey[r])

\* One reader has its result while another is in the middle of its call.
C7_Witness ==
    \E r1, r2 \in Readers :
        /\ r1 # r2
        /\ pc[r1] = "returned"
        /\ rres[r1].pos <= Len(TreeRecords)
        /\ pc[r2] = "compare"

\* C8: a step that changes or destroys the caller's map while the Tree
\* lives leaves the Tree alive, its bindings as they were and every
\* record(key) result as it was.
C8_OwnsStorage ==
    [][ (treeState = "alive" /\ heap'["caller"] # heap["caller"]) =>
            /\ treeState' = "alive"
            /\ TreeRecords' = TreeRecords
            /\ \A k \in Keys : Record(TreeRecords', k) = Record(TreeRecords, k)
      ]_vars

\* The caller's map no longer holds what the Tree was built from.
C8_Witness ==
    /\ treeState = "alive"
    /\ Len(built) >= 1
    /\ heap["caller"].recs # built
    /\ TreeRecords = built

\* C9: while the Tree lives, a kept iterator to a binding denotes that
\* same binding, however many record() calls were made since; once the
\* Tree is destroyed the object it pointed into is gone.
C9_IteratorStable ==
    /\ (treeState = "alive" /\ it.held /\ it.bind # NoBinding) =>
          /\ heap[recordsLoc].live
          /\ it.pos \in 1..Len(TreeRecords)
          /\ TreeRecords[it.pos] = it.bind
    /\ (treeState = "destroyed" /\ it.held) => ~heap[recordsLoc].live

\* An iterator to a binding, kept over as many calls as are counted.
C9_Witness ==
    /\ treeState = "alive"
    /\ it.held
    /\ it.bind # NoBinding
    /\ it.later = MaxLater

\* C10: construction leaves its argument as it was, so the map still holds
\* the bindings it held before, and a second Tree constructed from it has
\* the bindings of the first.
C10_ArgumentUntouched ==
    treeState = "alive" =>
        /\ argAfter = built
        /\ heap["caller"] = LiveMap(built)
        /\ ntrees >= 2 => TreeRecords = prevRecords

\* A second Tree built from a map of several bindings.
C10_Witness ==
    /\ treeState = "alive"
    /\ ntrees >= 2
    /\ Len(TreeRecords) >= 2

====
